---- MODULE Spec2Model ----
(***************************************************************************)
(* Screen Recorder API: the three deployment variants found in the source. *)
(*   "A"  src/server.js lines 1-128    POST /upload (promise-wrapped),     *)
(*                                     GET /api/recordings                 *)
(*   "B"  src/server.js lines 130-255  POST /api/recordings,               *)
(*                                     GET /api/recordings,                *)
(*                                     GET /api/recordings/:id             *)
(*   "P"  src/unnamed/part_000         POST /upload (INSERT inside the     *)
(*                                     upload_stream callback),            *)
(*                                     GET /api/recordings                 *)
(* An upload is three steps, split at its two I/O boundaries (Cloudinary    *)
(* write, Postgres INSERT); list and fetch-one hold nothing across their   *)
(* single SELECT and are one step each, taken when Postgres runs it.       *)
(* cors is the latest decision of the cors middleware, last the most       *)
(* recently finished request with the answer it got.                       *)
(***************************************************************************)
EXTENDS Integers, Sequences, FiniteSets, TLC

\* ------------------------------------------------------------- bounds
MaxReq == 2      \* requests the server receives in one run
MaxLen == 1      \* longest uploaded buffer, in bytes

Variants == {"A", "B", "P"}
Reqs == 1..MaxReq

\* ------------------------------------------------------------- inputs
NoOrigin == ""                      \* request without an Origin header
EvilOrigin == "https://evil.example"
Origins == {NoOrigin, "http://localhost:5173", EvilOrigin}

\* One payload of each length; the handlers never look inside a buffer.
Buffer(n) == [i \in 1..n |-> i % 256]
Buffers == {Buffer(n) : n \in 0..MaxLen}

\* req.file as multer.memoryStorage() leaves it: undefined, or a file whose
\* size is the length of its buffer.
NoFile == [present |-> FALSE, originalname |-> "", buffer |-> <<>>, size |-> 0]
File(name, buf) ==
  [present |-> TRUE, originalname |-> name, buffer |-> buf, size |-> Len(buf)]
Files == {NoFile} \cup {File("rec.webm", b) : b \in Buffers}

\* Range header: <<>> absent, <<s>> is bytes=s-, <<s, e>> is bytes=s-e.
NoRange == <<>>
Ranges == {NoRange, <<0>>, <<0, MaxLen>>}

\* The recording an earlier run of the server left in the database.
OldBlob == [url |-> 1, bytes |-> Buffer(MaxLen)]
OldRow ==
  [id |-> 1, filename |-> <<"rec.webm">>, url |-> 1, filesize |-> MaxLen]

\* :id path parameter: every id the table can hold, and 0, which it never holds.
IdParams == 0..(MaxReq + 1)

NoUrl == 0   \* uploadResult.secure_url when there is no upload result

VARIABLES variant, tableExists, rows, nextId, blobs, blobSeq, req, cors, last
vars == <<variant, tableExists, rows, nextId, blobs, blobSeq, req, cors, last>>

\* ------------------------------------------------------------- responses
NoResp ==
  [status |-> 0, error |-> "", message |-> "", url |-> NoUrl,
   filename |-> <<>>, rows |-> <<>>, contentRange |-> <<>>]
ErrorResp(code, msg) == [NoResp EXCEPT !.status = code, !.error = msg]

\* An upload in flight: what its closure holds (req.file, uploadResult).
Idle == [pc |-> "idle", file |-> NoFile, url |-> NoUrl]

\* A finished request: r its arrival number (0: none yet), its inputs, whether
\* its route handler ran, how its query ended ("" none, "ok", "error",
\* "undefined_table") and the response written (status 0: none).
Finished(r, kind) ==
  [r |-> r, kind |-> kind, file |-> NoFile, id |-> 0, range |-> NoRange,
   admitted |-> FALSE, url |-> NoUrl, db |-> "", resp |-> NoResp]

\* ------------------------------------------------------------- CORS
allowedOrigins ==
  {"http://localhost:5173",
   "https://screen-recorder-frontend-six.vercel.app",
   "https://screen-recorder-frontend-ixl2xytsi-geethas-projects-594b30ca.vercel.app",
   "https://screen-recorder-frontend-n3stbe1wr-geethas-projects-594b30ca.vercel.app"}

\* The origin the deployment is configured to allow.
ConfiguredOrigins(v) ==
  CASE v = "A" -> allowedOrigins
    [] v = "B" -> {"https://screen-recorder-frontend-six.vercel.app/"}
    [] v = "P" -> {"http://localhost:5173",
                   "https://screen-recorder-frontend-six.vercel.app"}

\* Whether the cors middleware calls next() without an error. Variant A gives
\* cors an origin function that fails the request; variants B and P give it a
\* static origin, with which the middleware only sets (or withholds) the
\* Access-Control-Allow-Origin header and always calls next().
CorsAdmits(v, origin) ==
  IF v = "A" THEN origin = NoOrigin \/ origin \in allowedOrigins
  ELSE TRUE

\* ------------------------------------------------------------- upload
\* if (!req.file) return res.status(400)...
HasFileAlways(file) == TRUE
HasFile(file) == file.present

\* The upload_stream callback: an error rejects (A, B) or answers 500 (P);
\* only a result lets the handler go on to the INSERT.
ProceedsAlways(v, error) == TRUE
ProceedsToInsert(v, error) == ~error

BlobErrorMessage(v) ==
  IF v = "P" THEN "Upload to Cloudinary failed" ELSE "Upload failed"

\* The parameters of the INSERT. `${Date.now()}-${originalname}` is the pair
\* of a timestamp token and the name; createdAt is the table's default.
InsertValuesSwapped(v, file, url) ==
  [filename |-> IF v = "B" THEN <<file.originalname>>
                ELSE <<"Date.now()", file.originalname>>,
   url |-> file.size,
   filesize |-> url]
InsertValues(v, file, url) ==
  [filename |-> IF v = "B" THEN <<file.originalname>>
                ELSE <<"Date.now()", file.originalname>>,
   url |-> url,
   filesize |-> file.size]

\* id SERIAL PRIMARY KEY
SameSerial(n) == n
NextSerial(n) == n + 1

\* The success response: B answers 201 with the row RETURNING * gave back,
\* A and P answer 200 with { url, filename }.
UploadSuccessResp(v, row) ==
  IF v = "B"
  THEN [NoResp EXCEPT !.status = 201,
                      !.message = "Recording uploaded successfully",
                      !.rows = <<row>>]
  ELSE [NoResp EXCEPT !.status = 200, !.url = row.url,
                      !.filename = row.filename]

\* A rejected INSERT: A and B await it inside try/catch and answer 500; in P
\* it is awaited inside the async upload_stream callback, outside any try, so
\* the rejection is unhandled and no response is ever written.
InsertFailedResp(v) ==
  IF v = "P" THEN NoResp ELSE ErrorResp(500, "Upload failed")

\* ------------------------------------------------------------- queries
MaxById(S) == CHOOSE x \in S : \A y \in S : y.id <= x.id
MinById(S) == CHOOSE x \in S : \A y \in S : x.id <= y.id

RECURSIVE OrderByIdAsc(_)
OrderByIdAsc(S) ==
  IF S = {} THEN <<>>
  ELSE LET m == MinById(S) IN <<m>> \o OrderByIdAsc(S \ {m})

\* SELECT ... FROM recordings ORDER BY id DESC
RECURSIVE OrderByIdDesc(_)
OrderByIdDesc(S) ==
  IF S = {} THEN <<>>
  ELSE LET m == MaxById(S) IN <<m>> \o OrderByIdDesc(S \ {m})

\* SELECT * FROM recordings WHERE id = $1
SelectAll(S, id) == OrderByIdDesc(S)
SelectById(S, id) == OrderByIdDesc({x \in S : x.id = id})

\* const row = rows[0]; 404 without one, else { url: row.url }. The handler
\* never reads the Range header of rq.
FetchRespRanged(rq, result) ==
  IF result = <<>> THEN ErrorResp(404, "Recording not found")
  ELSE IF rq.range = NoRange
       THEN [NoResp EXCEPT !.status = 200, !.url = result[1].url]
       ELSE LET n == result[1].filesize
                s == rq.range[1]
                e == IF Len(rq.range) = 2 THEN rq.range[2] ELSE n - 1
            IN [NoResp EXCEPT !.status = 206, !.contentRange = <<s, e, n>>]
FetchResp(rq, result) ==
  IF result = <<>> THEN ErrorResp(404, "Recording not found")
  ELSE [NoResp EXCEPT !.status = 200, !.url = result[1].url]

\* ------------------------------------------------------------- state
Init ==
  /\ variant \in Variants
  \* CREATE TABLE is issued, not awaited; the database is fresh, or holds the
  \* table and a recording of an earlier run.
  /\ tableExists \in BOOLEAN
  /\ rows = IF tableExists THEN {OldRow} ELSE {}
  /\ nextId = IF tableExists THEN 2 ELSE 1
  /\ blobs = IF tableExists THEN {OldBlob} ELSE {}
  /\ blobSeq = IF tableExists THEN 1 ELSE 0
  /\ req = [r \in Reqs |-> Idle]
  /\ cors = [r |-> 0, origin |-> NoOrigin, admitted |-> FALSE]
  /\ last = Finished(0, "")

\* Request r is the r-th request the server receives.
Arrives(r) ==
  /\ req[r].pc = "idle"
  /\ IF r = 1 THEN TRUE ELSE req[r - 1].pc # "idle"

\* The cors middleware decides on request r, which came with Origin o.
Cors(r, o) ==
  cors' = [r |-> r, origin |-> o, admitted |-> CorsAdmits(variant, o)]

\* The default express error handler answers the error cors passed to next().
CorsRejected(fin) == [fin EXCEPT !.resp = ErrorResp(500, "CORS not allowed")]

\* How Postgres ends a query on the recordings table.
QueryResult(ok) ==
  IF ~tableExists THEN "undefined_table" ELSE IF ok THEN "ok" ELSE "error"

\* The startup IIFE's CREATE TABLE IF NOT EXISTS completes.
CreateTable ==
  /\ ~tableExists
  /\ tableExists' = TRUE
  /\ UNCHANGED <<variant, rows, nextId, blobs, blobSeq, req, cors, last>>

\* POST /upload (A, P), POST /api/recordings (B): up to the blob write.
UploadStart(r, o, f) ==
  /\ Arrives(r)
  /\ Cors(r, o)
  /\ LET fin == [Finished(r, "upload") EXCEPT !.file = f]
     IN IF ~CorsAdmits(variant, o)
        THEN /\ req' = [req EXCEPT ![r].pc = "done"]
             /\ last' = CorsRejected(fin)
        ELSE IF ~HasFile(f)
        THEN /\ req' = [req EXCEPT ![r].pc = "done"]
             /\ last' = [fin EXCEPT !.admitted = TRUE,
                                    !.resp = ErrorResp(400, "No file uploaded")]
        ELSE /\ req' = [req EXCEPT ![r] =
                          [pc |-> "blob", file |-> f, url |-> NoUrl]]
             /\ last' = last
  /\ UNCHANGED <<variant, tableExists, rows, nextId, blobs, blobSeq>>

\* Cloudinary finishes the write and the upload_stream callback runs.
BlobDone(r, error) ==
  /\ req[r].pc = "blob"
  /\ LET u == blobSeq + 1
         cur == req[r]
     IN /\ blobSeq' = IF error THEN blobSeq ELSE u
        /\ blobs' = IF error THEN blobs
                    ELSE blobs \cup {[url |-> u, bytes |-> cur.file.buffer]}
        /\ IF ProceedsToInsert(variant, error)
           THEN /\ req' = [req EXCEPT ![r].pc = "insert",
                                      ![r].url = IF error THEN NoUrl ELSE u]
                /\ last' = last
           ELSE /\ req' = [req EXCEPT ![r] = [Idle EXCEPT !.pc = "done"]]
                /\ last' = [Finished(r, "upload") EXCEPT
                              !.file = cur.file, !.admitted = TRUE,
                              !.resp = ErrorResp(500, BlobErrorMessage(variant))]
  /\ UNCHANGED <<variant, tableExists, rows, nextId, cors>>

\* Postgres executes the INSERT and the handler answers.
InsertDone(r, ok) ==
  /\ req[r].pc = "insert"
  /\ LET cur == req[r]
         db == QueryResult(ok)
         vals == InsertValues(variant, cur.file, cur.url)
         row == [id |-> nextId, filename |-> vals.filename, url |-> vals.url,
                 filesize |-> vals.filesize]
         fin == [Finished(r, "upload") EXCEPT
                   !.file = cur.file, !.admitted = TRUE, !.url = cur.url,
                   !.db = db]
     IN /\ rows' = IF db = "ok" THEN rows \cup {row} ELSE rows
        /\ nextId' = IF db = "ok" THEN NextSerial(nextId) ELSE nextId
        /\ last' = [fin EXCEPT !.resp = IF db = "ok"
                                        THEN UploadSuccessResp(variant, row)
                                        ELSE InsertFailedResp(variant)]
  /\ req' = [req EXCEPT ![r] = [Idle EXCEPT !.pc = "done"]]
  /\ UNCHANGED <<variant, tableExists, blobs, blobSeq, cors>>

\* GET /api/recordings, at the moment Postgres executes its SELECT.
List(r, o, ok) ==
  /\ Arrives(r)
  /\ Cors(r, o)
  /\ LET fin == Finished(r, "list")
         db == QueryResult(ok)
     IN last' =
          IF ~CorsAdmits(variant, o) THEN CorsRejected(fin)
          ELSE [fin EXCEPT
                  !.admitted = TRUE, !.db = db,
                  !.resp = IF db = "ok"
                           THEN [NoResp EXCEPT !.status = 200,
                                               !.rows = OrderByIdDesc(rows)]
                           ELSE ErrorResp(500, "DB query failed")]
  /\ req' = [req EXCEPT ![r].pc = "done"]
  /\ UNCHANGED <<variant, tableExists, rows, nextId, blobs, blobSeq>>

\* GET /api/recordings/:id (B only), at the moment Postgres executes its SELECT.
Fetch(r, o, id, range, ok) ==
  /\ variant = "B"
  /\ Arrives(r)
  /\ Cors(r, o)
  /\ LET fin == [Finished(r, "fetch") EXCEPT !.id = id, !.range = range]
         db == QueryResult(ok)
     IN last' =
          IF ~CorsAdmits(variant, o) THEN CorsRejected(fin)
          ELSE [fin EXCEPT
                  !.admitted = TRUE, !.db = db,
                  !.resp = IF db = "ok"
                           THEN FetchResp(fin, SelectById(rows, id))
                           ELSE ErrorResp(500, "DB query failed")]
  /\ req' = [req EXCEPT ![r].pc = "done"]
  /\ UNCHANGED <<variant, tableExists, rows, nextId, blobs, blobSeq>>

Next ==
  \/ CreateTable
  \/ \E r \in Reqs, o \in Origins, f \in Files : UploadStart(r, o, f)
  \/ \E r \in Reqs, error \in BOOLEAN : BlobDone(r, error)
  \/ \E r \in Reqs, ok \in BOOLEAN : InsertDone(r, ok)
  \/ \E r \in Reqs, o \in Origins, ok \in BOOLEAN : List(r, o, ok)
  \/ \E r \in Reqs, o \in Origins, id \in IdParams, range \in Ranges,
        ok \in BOOLEAN : Fetch(r, o, id, range, ok)

Spec == Init /\ [][Next]_vars

\* The server on a database that already holds the recordings table: the
\* startup CREATE TABLE IF NOT EXISTS changes nothing there.
InitReady == Init /\ tableExists
NextReady ==
  \/ \E r \in Reqs, o \in Origins, f \in Files : UploadStart(r, o, f)
  \/ \E r \in Reqs, error \in BOOLEAN : BlobDone(r, error)
  \/ \E r \in Reqs, ok \in BOOLEAN : InsertDone(r, ok)
  \/ \E r \in Reqs, o \in Origins, ok \in BOOLEAN : List(r, o, ok)
  \/ \E r \in Reqs, o \in Origins, id \in IdParams, range \in Ranges,
        ok \in BOOLEAN : Fetch(r, o, id, range, ok)
SpecReady == InitReady /\ [][NextReady]_vars

\* ------------------------------------------------------------- properties
RowsWithUrl(u) == {x \in rows : x.url = u}
RowsWithId(id) == {x \in rows : x.id = id}
Stored(u, buf) == \E b \in blobs : b.url = u /\ b.bytes = buf
UploadOk == last.kind = "upload" /\ last.resp.status \in {200, 201}
Finishes(kind) == last'.r # last.r /\ last'.kind = kind
StoresUnchanged ==
  rows' = rows /\ nextId' = nextId /\ blobs' = blobs /\ blobSeq' = blobSeq

\* C1: store-then-record. Every recordings row refers to a blob the blob store
\* already holds, and an INSERT is only ever in flight for a request whose own
\* payload the blob store holds under the url the INSERT carries.
StoreThenRecord ==
  /\ \A x \in rows : \E b \in blobs : b.url = x.url
  /\ \A r \in Reqs :
       req[r].pc = "insert" => Stored(req[r].url, req[r].file.buffer)

\* C1 witness: an upload has inserted its row while another, its blob
\* stored, still awaits its INSERT.
StoreThenRecordWitness ==
  /\ Cardinality(rows) = 2
  /\ \E r \in Reqs : req[r].pc = "insert"

\* C2 (as claimed): an admitted upload that carries a file and whose blob write
\* or INSERT failed has been answered 500 with an error payload once its
\* handler has nothing left to run.
UploadFailureAnswers500 ==
  (last.kind = "upload" /\ last.admitted /\ last.file.present
     /\ last.db # "ok")
  => (last.resp.status = 500 /\ last.resp.error # "")

\* C3: an upload without a file is answered 400, never starts a blob write or
\* an INSERT, and leaves both stores as they were.
NoFileRejected ==
  /\ [](\A r \in Reqs : req[r].pc \in {"blob", "insert"} => req[r].file.present)
  /\ []((last.kind = "upload" /\ last.admitted /\ ~last.file.present)
          => (last.resp.status = 400 /\ last.resp.error = "No file uploaded"
              /\ last.db = "" /\ last.url = NoUrl))
  /\ [][(Finishes("upload") /\ ~last'.file.present)
          => (StoresUnchanged /\ req'[last'.r].pc = "done")]_vars

\* C3 witness: a file-less upload got its 400 while the stores hold a
\* recording and another upload is in flight.
NoFileRejectedWitness ==
  /\ last.kind = "upload" /\ last.admitted /\ ~last.file.present
  /\ last.resp.status = 400
  /\ rows # {}
  /\ \E r \in Reqs : req[r].pc = "blob"

\* C4: uploads that overlap keep apart. Row ids are unique, there is one row
\* per blob write, every row carries the url and the byte length of one and
\* the same stored payload, and a successful upload finds exactly its own
\* payload under its own row.
ConcurrentUploadsDistinct ==
  /\ \A x, y \in rows : x.id = y.id => x = y
  /\ \A x, y \in rows : x.url = y.url => x = y
  /\ \A a, b \in blobs : a.url = b.url => a = b
  /\ \A x \in rows : \E b \in blobs : b.url = x.url /\ x.filesize = Len(b.bytes)
  /\ UploadOk =>
       /\ Cardinality(RowsWithUrl(last.url)) = 1
       /\ \A x \in RowsWithUrl(last.url) :
            x.filesize = Len(last.file.buffer) /\ x.id = nextId - 1
       /\ Stored(last.url, last.file.buffer)

\* C4 witness: two uploads of different sizes whose blob writes finished in
\* one order and whose INSERTs ran in the other.
ConcurrentUploadsWitness ==
  /\ UploadOk
  /\ \E x, y \in rows :
       /\ x.id < y.id /\ x.url > y.url /\ x.filesize # y.filesize
       /\ x.url # OldRow.url /\ y.url # OldRow.url

ListNewestFirst ==
  /\ []((last.kind = "list" /\ last.resp.status = 200) =>
          LET L == last.resp.rows
          IN /\ Len(L) = Cardinality(rows)
             /\ {L[i] : i \in 1..Len(L)} = rows
             /\ \A i \in 1..(Len(L) - 1) : L[i].id > L[i + 1].id)
  /\ [][Finishes("list") => StoresUnchanged]_vars

\* C6 witness: a list answer of at least two rows.
ListNewestFirstWitness ==
  /\ last.kind = "list" /\ last.resp.status = 200
  /\ Len(last.resp.rows) >= 2

\* C7: fetch-one answers 500 when its query fails, 404 when the query finds no
\* row of that id, and 200 with the url of the row of that id otherwise; it
\* leaves the stores as they were.
FetchOne ==
  /\ []((last.kind = "fetch" /\ last.admitted) =>
          IF last.db # "ok"
          THEN last.resp.status = 500 /\ last.resp.error = "DB query failed"
          ELSE IF RowsWithId(last.id) = {}
          THEN last.resp.status = 404
          ELSE /\ last.resp.status = 200
               /\ \A x \in RowsWithId(last.id) : last.resp.url = x.url)
  /\ [][Finishes("fetch") => StoresUnchanged]_vars

\* C7 witness: the second of two rows fetched by its id.
FetchOneWitness ==
  /\ last.kind = "fetch" /\ last.resp.status = 200
  /\ Cardinality(rows) >= 2
  /\ last.id = 2

\* C8 (as claimed): a Range header on a stored recording of size N is answered
\* 206 with Content-Range start-end/N, end defaulting to N - 1.
RangeYieldsPartialContent ==
  (last.kind = "fetch" /\ last.db = "ok" /\ last.range # NoRange) =>
    \A x \in RowsWithId(last.id) :
      LET s == last.range[1]
          e == IF Len(last.range) = 2 THEN last.range[2] ELSE x.filesize - 1
      IN /\ last.resp.status = 206
         /\ last.resp.contentRange = <<s, e, x.filesize>>

\* C8 (amended): a Range header changes nothing. A stored recording fetched
\* with one is answered 200 with the url of its row, no Content-Range.
RangeHeaderIgnored ==
  (last.kind = "fetch" /\ last.db = "ok" /\ last.range # NoRange) =>
    \A x \in RowsWithId(last.id) :
      /\ last.resp.status = 200
      /\ last.resp.url = x.url
      /\ last.resp.contentRange = <<>>

\* C8 witness: bytes=0- asked of a stored recording.
RangeHeaderWitness ==
  /\ last.kind = "fetch" /\ last.db = "ok" /\ last.range = <<0>>
  /\ RowsWithId(last.id) # {}
  /\ last.resp.status = 200

\* C9 (as claimed): a request whose Origin is not in the configured allow-list
\* is rejected by the cors middleware and reaches no route handler, so it
\* starts no blob write, no INSERT and no SELECT.
OtherOriginsRejected ==
  (cors.r # 0 /\ cors.origin # NoOrigin
     /\ cors.origin \notin ConfiguredOrigins(variant))
  => /\ ~cors.admitted
     /\ req[cors.r].pc \notin {"blob", "insert"}
     /\ last.r = cors.r => (~last.admitted /\ last.db = "")

\* C10 (as claimed): no query of a request runs before the startup CREATE TABLE
\* has completed, so none fails for want of the table.
TableReadyBeforeQueries == last.db # "undefined_table"

====
